---- MODULE Spec2Model ----
(***************************************************************************)
(* Mutation contexts for persistent structures.                            *)
(*                                                                         *)
(* The heap of the program is modelled by three sequences:                 *)
(*   tokens : the one-tuples [boolean] shared by reference; the index of   *)
(*            a cell is its identity, the element is token[0];             *)
(*   ctxs   : the MutationContext instances (token reference, owner);      *)
(*   vals   : the PersistentStructure instances, each with its '@@mctx'    *)
(*            property (Undefined when the structure reports none).        *)
(* Every function of the source takes the heap h it runs on as its first   *)
(* argument and, when it allocates or writes, returns the heap it leaves.  *)
(***************************************************************************)
EXTENDS Integers, Sequences, FiniteSets, TLC

VARIABLES tokens, ctxs, vals, joined, last

vars == <<tokens, ctxs, vals, joined, last>>

\* Largest number of PersistentStructure instances that are ever allocated.
MaxVals == 4

\* The value `undefined`: an absent '@@mctx', an omitted join argument,
\* the return value of a call that threw.
Undefined == 0

NoError == "none"

JoinError == "Cannot join a finalized mutation context"

\* The heap the functions operate on.
H == [tokens |-> tokens, ctxs |-> ctxs, vals |-> vals]

Values == 1..Len(vals)

\* isDefined from './basic': tests whether an optional value is present.
isDefined(x) == x # Undefined

\* error from './basic': aborts the current operation with a message; the
\* heap is left as it is at the point of the throw.
error(h, msg) == [heap |-> h, ret |-> Undefined, err |-> msg]

\* new MutationContext(token, owner)
MutationContext(token, owner) == [token |-> token, owner |-> owner]

\* const FROZEN = Object.freeze(new MutationContext([false], false)):
\* the first context of the heap, referencing the first token cell.
FROZEN == 1

frozenContext(h) == [heap |-> h, ret |-> FROZEN, err |-> NoError]

\* new MutationContext([true], true): a fresh cell and a fresh context.
mutableContext_sharesCell(h) ==
  LET h1 == IF Len(h.tokens) < 2 THEN [h EXCEPT !.tokens = Append(@, TRUE)] ELSE h
  IN  [heap |-> [h1 EXCEPT !.ctxs = Append(@, MutationContext(2, TRUE))],
       ret |-> Len(h.ctxs) + 1, err |-> NoError]

mutableContext(h) ==
  LET t == Len(h.tokens) + 1
      h1 == [h EXCEPT !.tokens = Append(@, TRUE)]
  IN  [heap |-> [h1 EXCEPT !.ctxs = Append(@, MutationContext(t, TRUE))],
       ret |-> Len(h.ctxs) + 1, err |-> NoError]

mctx_noFallback(h, value) == h.vals[value].mctx

mctx(h, value) ==
  LET mc == h.vals[value].mctx
  IN  IF isDefined(mc) THEN mc ELSE FROZEN

token(h, value) == h.ctxs[mctx(h, value)].token

isActive(h, mc) == h.tokens[h.ctxs[mc].token]

isOwner(h, mc) == h.ctxs[mc].owner

freeze_rebinds(h, mc) ==
  LET t == Len(h.tokens) + 1
      h1 == [h EXCEPT !.tokens = Append(@, FALSE)]
  IN  [h1 EXCEPT !.ctxs[mc] = MutationContext(t, h.ctxs[mc].owner)]

freeze(h, mc) == [h EXCEPT !.tokens[h.ctxs[mc].token] = FALSE]

isMutable(h, value) == h.tokens[h.ctxs[mctx(h, value)].token]

isImmutable(h, value) == ~isMutable(h, value)

isSameMutationContext_structural(h, a, b) ==
  LET t == token(h, a)
  IN  h.tokens[t] /\ h.tokens[t] = h.tokens[token(h, b)]

isSameMutationContext(h, a, b) ==
  LET t == token(h, a)
  IN  h.tokens[t] /\ t = token(h, b)

shadow_copiesToken(h, value) ==
  LET mc == mctx(h, value)
      t == Len(h.tokens) + 1
      h1 == [h EXCEPT !.tokens = Append(@, h.tokens[h.ctxs[mc].token])]
  IN  IF isActive(h, mc)
      THEN IF h.ctxs[mc].owner
           THEN [heap |-> [h1 EXCEPT !.ctxs = Append(@, MutationContext(t, FALSE))],
                 ret |-> Len(h.ctxs) + 1, err |-> NoError]
           ELSE [heap |-> h, ret |-> mc, err |-> NoError]
      ELSE error(h, JoinError)

shadow_sharesOwner(h, value) ==
  LET mc == mctx(h, value)
  IN  IF isActive(h, mc)
      THEN [heap |-> h, ret |-> mc, err |-> NoError]
      ELSE error(h, JoinError)

shadow_noActiveCheck(h, value) ==
  LET mc == mctx(h, value)
  IN  IF h.ctxs[mc].owner
      THEN [heap |-> [h EXCEPT !.ctxs = Append(@, MutationContext(h.ctxs[mc].token, FALSE))],
            ret |-> Len(h.ctxs) + 1, err |-> NoError]
      ELSE [heap |-> h, ret |-> mc, err |-> NoError]

shadow_derivesOwner(h, value) ==
  LET mc == mctx(h, value)
  IN  IF isActive(h, mc)
      THEN IF h.ctxs[mc].owner
           THEN [heap |-> [h EXCEPT !.ctxs = Append(@, MutationContext(h.ctxs[mc].token, TRUE))],
                 ret |-> Len(h.ctxs) + 1, err |-> NoError]
           ELSE [heap |-> h, ret |-> mc, err |-> NoError]
      ELSE error(h, JoinError)

shadow_alwaysDerives(h, value) ==
  LET mc == mctx(h, value)
  IN  IF isActive(h, mc)
      THEN [heap |-> [h EXCEPT !.ctxs = Append(@, MutationContext(h.ctxs[mc].token, FALSE))],
            ret |-> Len(h.ctxs) + 1, err |-> NoError]
      ELSE error(h, JoinError)

shadow(h, value) ==
  LET mc == mctx(h, value)
  IN  IF isActive(h, mc)
      THEN IF h.ctxs[mc].owner
           THEN [heap |-> [h EXCEPT !.ctxs = Append(@, MutationContext(h.ctxs[mc].token, FALSE))],
                 ret |-> Len(h.ctxs) + 1, err |-> NoError]
           ELSE [heap |-> h, ret |-> mc, err |-> NoError]
      ELSE error(h, JoinError)

\* value['@@clone'](mctx): a new structure bound to the context it is given.
clone(h, mc, value) ==
  [heap |-> [h EXCEPT !.vals = Append(@, [mctx |-> mc])],
   ret |-> Len(h.vals) + 1, err |-> NoError]

\* A throw in the evaluation of an argument abandons the call.
cloneOf(h, m, value) ==
  IF m.err # NoError THEN m ELSE clone(m.heap, m.ret, value)

asMutable_alwaysClones(h, value, join) ==
  IF isDefined(join)
  THEN IF isSameMutationContext(h, value, join)
       THEN [heap |-> h, ret |-> value, err |-> NoError]
       ELSE cloneOf(h, shadow(h, join), value)
  ELSE cloneOf(h, mutableContext(h), value)

asMutable_thaw(h, value, join) ==
  IF isDefined(join)
  THEN IF isSameMutationContext(h, value, join)
       THEN [heap |-> h, ret |-> value, err |-> NoError]
       ELSE cloneOf(h, shadow(h, join), value)
  ELSE IF isMutable(h, value)
       THEN [heap |-> h, ret |-> value, err |-> NoError]
       ELSE IF isOwner(h, mctx(h, value))
            THEN [heap |-> [h EXCEPT !.tokens[token(h, value)] = TRUE],
                  ret |-> value, err |-> NoError]
            ELSE cloneOf(h, mutableContext(h), value)

asMutable_joinsWhenImmutableOnly(h, value, join) ==
  IF isDefined(join)
  THEN IF isMutable(h, value)
       THEN [heap |-> h, ret |-> value, err |-> NoError]
       ELSE cloneOf(h, shadow(h, join), value)
  ELSE IF isMutable(h, value)
       THEN [heap |-> h, ret |-> value, err |-> NoError]
       ELSE cloneOf(h, mutableContext(h), value)

asMutable(h, value, join) ==
  IF isDefined(join)
  THEN IF isSameMutationContext(h, value, join)
       THEN [heap |-> h, ret |-> value, err |-> NoError]
       ELSE cloneOf(h, shadow(h, join), value)
  ELSE IF isMutable(h, value)
       THEN [heap |-> h, ret |-> value, err |-> NoError]
       ELSE cloneOf(h, mutableContext(h), value)

doneMutating_noOwnerCheck(h, value) ==
  LET mc == mctx(h, value)
  IN  [heap |-> IF isActive(h, mc) THEN freeze(h, mc) ELSE h,
       ret |-> value, err |-> NoError]

doneMutating_toggle(h, value) ==
  LET mc == mctx(h, value)
  IN  [heap |-> IF isOwner(h, mc)
                THEN [h EXCEPT !.tokens[h.ctxs[mc].token] = ~@]
                ELSE h,
       ret |-> value, err |-> NoError]

doneMutating_nonOwnerOnly(h, value) ==
  LET mc == mctx(h, value)
  IN  [heap |-> IF isActive(h, mc) /\ ~isOwner(h, mc) THEN freeze(h, mc) ELSE h,
       ret |-> value, err |-> NoError]

doneMutating(h, value) ==
  LET mc == mctx(h, value)
  IN  [heap |-> IF isActive(h, mc) /\ isOwner(h, mc) THEN freeze(h, mc) ELSE h,
       ret |-> value, err |-> NoError]

----------------------------------------------------------------------------
\* The record of the call made last: its arguments, the structure it
\* returned, the boolean a query returned, the error it threw and whether it
\* wrote a token cell. A query leaves its arguments out of the record.
Call(op, value, join, ret, flag, err, wrote) ==
  [op |-> op, value |-> value, join |-> join, ret |-> ret, flag |-> flag,
   err |-> err, wrote |-> wrote]

Init_frozenActive ==
  /\ tokens = <<TRUE>>
  /\ ctxs = <<MutationContext(1, FALSE)>>
  /\ vals = <<>>
  /\ joined = <<>>
  /\ last = Call("init", Undefined, Undefined, Undefined, FALSE, NoError, FALSE)

Init ==
  /\ tokens = <<FALSE>>
  /\ ctxs = <<MutationContext(1, FALSE)>>
  /\ vals = <<>>
  /\ joined = <<>>
  /\ last = Call("init", Undefined, Undefined, Undefined, FALSE, NoError, FALSE)

\* Construction of the first version of a structure in a mutable state:
\* its '@@mctx' is assigned the result of mutableContext().
ConstructMutable ==
  /\ Len(vals) < MaxVals
  /\ LET m == mutableContext(H)
         h == [m.heap EXCEPT !.vals = Append(@, [mctx |-> m.ret])]
     IN  /\ tokens' = h.tokens
         /\ ctxs' = h.ctxs
         /\ vals' = h.vals
         /\ joined' = Append(joined, Undefined)
         /\ last' = Call("constructMutable", Undefined, Undefined, Len(h.vals),
                         FALSE, NoError, FALSE)

\* Construction of the first version of a structure with default
\* immutability: its '@@mctx' is assigned the result of frozenContext().
ConstructFrozen ==
  /\ Len(vals) < MaxVals
  /\ LET m == frozenContext(H)
     IN  /\ vals' = Append(vals, [mctx |-> m.ret])
         /\ joined' = Append(joined, Undefined)
         /\ last' = Call("constructFrozen", Undefined, Undefined, Len(vals) + 1,
                         FALSE, NoError, FALSE)
         /\ UNCHANGED <<tokens, ctxs>>

\* A structure that reports no context at all.
ConstructBare ==
  /\ Len(vals) < MaxVals
  /\ vals' = Append(vals, [mctx |-> Undefined])
  /\ joined' = Append(joined, Undefined)
  /\ last' = Call("constructBare", Undefined, Undefined, Len(vals) + 1,
                  FALSE, NoError, FALSE)
  /\ UNCHANGED <<tokens, ctxs>>

IsMutable(v) ==
  /\ last' = Call("isMutable", Undefined, Undefined, Undefined,
                  isMutable(H, v), NoError, FALSE)
  /\ UNCHANGED <<tokens, ctxs, vals, joined>>

IsImmutable(v) ==
  /\ last' = Call("isImmutable", Undefined, Undefined, Undefined,
                  isImmutable(H, v), NoError, FALSE)
  /\ UNCHANGED <<tokens, ctxs, vals, joined>>

IsSameMutationContext(a, b) ==
  /\ last' = Call("isSameMutationContext", Undefined, Undefined, Undefined,
                  isSameMutationContext(H, a, b), NoError, FALSE)
  /\ UNCHANGED <<tokens, ctxs, vals, joined>>

\* asMutable(value, join); join = Undefined is the call with one argument.
\* joined records, for a clone, the join argument of the call that made it.
AsMutable(v, j) ==
  \E r \in {asMutable(H, v, j)} :
    /\ Len(r.heap.vals) <= MaxVals
    /\ tokens' = r.heap.tokens
    /\ ctxs' = r.heap.ctxs
    /\ vals' = r.heap.vals
    /\ joined' = IF Len(r.heap.vals) > Len(vals) THEN Append(joined, j) ELSE joined
    /\ last' = Call("asMutable", v, j, r.ret, FALSE, r.err, r.heap.tokens # tokens)

DoneMutating(v) ==
  \E r \in {doneMutating(H, v)} :
    /\ tokens' = r.heap.tokens
    /\ ctxs' = r.heap.ctxs
    /\ vals' = r.heap.vals
    /\ joined' = joined
    /\ last' = Call("doneMutating", v, Undefined, r.ret, FALSE, r.err,
                    r.heap.tokens # tokens)

Next ==
  \/ ConstructMutable
  \/ ConstructFrozen
  \/ ConstructBare
  \/ \E v \in Values : IsMutable(v)
  \/ \E v \in Values : IsImmutable(v)
  \/ \E a \in Values : \E b \in Values : IsSameMutationContext(a, b)
  \/ \E v \in Values : \E j \in Values \cup {Undefined} : AsMutable(v, j)
  \/ \E v \in Values : DoneMutating(v)

Spec == Init /\ [][Next]_vars

----------------------------------------------------------------------------
TypeOK ==
  /\ tokens \in Seq(BOOLEAN)
  /\ Len(vals) <= MaxVals
  /\ Len(joined) = Len(vals)
  /\ \A c \in DOMAIN ctxs : ctxs[c].token \in DOMAIN tokens
  /\ \A v \in Values : vals[v].mctx \in DOMAIN ctxs \cup {Undefined}
  /\ \A v \in Values : joined[v] \in 0..(v - 1)

\* v is a, or v was cloned to join a, or to join a structure that had
\* joined a, and so on.
RECURSIVE JoinsThrough(_, _)
JoinsThrough(v, a) ==
  \/ v = a
  \/ joined[v] # Undefined /\ JoinsThrough(joined[v], a)

\* The batch of a: a and the structures that joined it, directly or not.
BatchOf(a) == {v \in Values : JoinsThrough(v, a)}

Ok(h, ret) == [heap |-> h, ret |-> ret, err |-> NoError]

----------------------------------------------------------------------------
\* C1. Freezing is irreversible: in every step a token cell that holds
\* false still holds false afterwards, and a structure that is immutable
\* stays immutable.
C1_FreezeIrreversible ==
  [][/\ \A t \in DOMAIN tokens :
          ~tokens[t] => (t \in DOMAIN tokens' /\ ~tokens'[t])
     /\ \A h \in {H} : \A h2 \in {H'} : \A v \in Values :
          ~isMutable(h, v) => (v \in DOMAIN vals' /\ ~isMutable(h2, v))]_vars

\* asMutable has just been called on the frozen owner of a batch.
C1_Witness ==
  /\ last.op = "asMutable"
  /\ last.err = NoError
  /\ isOwner(H, mctx(H, last.value))
  /\ ~isMutable(H, last.value)

\* C2. Batched freeze: doneMutating(a) on an active owning a leaves a and
\* every structure that joined a's batch, directly or through another
\* joiner, immutable.
C2_BatchedFreeze ==
  /\ \A a \in Values :
       (isActive(H, mctx(H, a)) /\ isOwner(H, mctx(H, a)))
         => \A r \in {doneMutating(H, a)} :
              \A v \in BatchOf(a) : ~isMutable(r.heap, v)
  /\ (last.op = "doneMutating" /\ last.wrote)
       => \A v \in BatchOf(last.value) : ~isMutable(H, v)

\* The owner has just frozen a batch that holds a joiner of a joiner.
C2_Witness ==
  /\ last.op = "doneMutating"
  /\ last.wrote
  /\ \E v \in BatchOf(last.value) : joined[v] \notin {Undefined, last.value}

\* C3. doneMutating(b) on a b whose context is non-owning or frozen leaves
\* the heap as it is; a mutable non-owning b becomes immutable only in a
\* doneMutating call on the owner of its token.
C3_NonOwnerDoneIsNoOp ==
  /\ [](\A b \in Values :
          ~(isActive(H, mctx(H, b)) /\ isOwner(H, mctx(H, b)))
            => doneMutating(H, b) = Ok(H, b))
  /\ [][/\ (last'.op = "doneMutating" /\ ~last'.wrote) => H' = H
        /\ \A h \in {H} : \A h2 \in {H'} : \A b \in Values :
             (isMutable(h, b) /\ ~isMutable(h2, b) /\ ~isOwner(h, mctx(h, b)))
               => /\ last'.op = "doneMutating"
                  /\ isOwner(h, mctx(h, last'.value))
                  /\ token(h, last'.value) = token(h, b)]_vars

\* doneMutating has just been called on a joiner, which is still mutable.
C3_Witness ==
  /\ last.op = "doneMutating"
  /\ ~last.wrote
  /\ ~isOwner(H, mctx(H, last.value))
  /\ isMutable(H, last.value)
  /\ \E a \in Values : isOwner(H, mctx(H, a)) /\ isSameMutationContext(H, a, last.value)

\* C4. A structure bound to a context made by mutableContext() is mutable
\* when constructed and becomes immutable only in a doneMutating call on
\* that very structure.
C4_OwnerMutableUntilDone ==
  [][/\ last'.op = "constructMutable" => isMutable(H', last'.ret)
     /\ \A h \in {H} : \A h2 \in {H'} : \A v \in Values :
          (isMutable(h, v) /\ ~isMutable(h2, v) /\ isOwner(h, mctx(h, v)))
            => (last'.op = "doneMutating" /\ last'.value = v)]_vars

\* doneMutating has just been called on a joiner of a mutable owner, which
\* was itself the join target of an asMutable call.
C4_Witness ==
  /\ last.op = "doneMutating"
  /\ \E v \in Values :
       /\ v # last.value
       /\ isOwner(H, mctx(H, v))
       /\ isMutable(H, v)
       /\ joined[last.value] = v

\* C5. asMutable(v, join) throws exactly when join is immutable, whatever
\* v is; a call that throws returns nothing and leaves the heap as it is.
C5_JoinErrorIffJoinImmutable ==
  /\ \A v \in Values : \A j \in Values :
       \A r \in {asMutable(H, v, j)} :
         /\ r.err = JoinError <=> isImmutable(H, j)
         /\ r.err \in {NoError, JoinError}
         /\ r.err # NoError => (r.heap = H /\ r.ret = Undefined)
  /\ (last.op = "asMutable" /\ last.err # NoError)
       => /\ last.err = JoinError
          /\ isDefined(last.join)
          /\ isImmutable(H, last.join)
          /\ ~last.wrote

\* A mutable structure has just failed to join an immutable one.
C5_Witness ==
  /\ last.op = "asMutable"
  /\ last.err = JoinError
  /\ isMutable(H, last.value)
  /\ last.value # last.join

\* C6. Join postcondition: asMutable(y, a) with a mutable a succeeds and
\* returns a mutable structure in the mutation context of a and of every
\* structure a had joined through.
C6_JoinPostcondition ==
  /\ \A a \in Values :
       isMutable(H, a) =>
         \A y \in Values : \A r \in {asMutable(H, y, a)} :
           /\ r.err = NoError
           /\ isMutable(r.heap, r.ret)
           /\ isSameMutationContext(r.heap, a, r.ret)
           /\ \A a0 \in Values :
                JoinsThrough(a, a0) => isSameMutationContext(r.heap, a0, r.ret)
  /\ (last.op = "asMutable" /\ isDefined(last.join) /\ last.err = NoError)
       => /\ isMutable(H, last.ret)
          /\ \A a0 \in Values :
               JoinsThrough(last.join, a0) => isSameMutationContext(H, a0, last.ret)

\* A clone has just joined a joiner: c = asMutable(z, b), b = asMutable(y, a).
C6_Witness ==
  /\ last.op = "asMutable"
  /\ last.err = NoError
  /\ last.ret # last.value
  /\ isDefined(last.join)
  /\ isDefined(joined[last.join])
  /\ isSameMutationContext(H, joined[last.join], last.ret)

\* C7. Identity law: asMutable(v) on a mutable v returns v and leaves the
\* heap as it is.
C7_IdentityLaw ==
  /\ \A v \in Values :
       isMutable(H, v) => asMutable(H, v, Undefined) = Ok(H, v)
  /\ (last.op = "asMutable" /\ ~isDefined(last.join) /\ last.ret = last.value)
       => ~last.wrote

\* asMutable(v) has just returned a mutable joiner v.
C7_Witness ==
  /\ last.op = "asMutable"
  /\ ~isDefined(last.join)
  /\ last.ret = last.value
  /\ ~isOwner(H, mctx(H, last.value))
  /\ isMutable(H, last.value)

\* C8. Non-destructive clone: asMutable(v) on an immutable v returns a new
\* mutable structure bound to a new owning context whose token cell is new
\* and referenced by no other context; v and the rest of the heap are as
\* they were.
C8_NonDestructiveClone ==
  \A v \in Values :
    isImmutable(H, v) =>
      LET r == asMutable(H, v, Undefined)
          c == r.heap.vals[r.ret].mctx
      IN  /\ r.err = NoError
          /\ r.ret \notin Values
          /\ DOMAIN r.heap.vals = Values \cup {r.ret}
          /\ isMutable(r.heap, r.ret)
          /\ c \notin DOMAIN ctxs
          /\ isOwner(r.heap, c)
          /\ r.heap.ctxs[c].token \notin DOMAIN tokens
          /\ \A c2 \in DOMAIN r.heap.ctxs :
               r.heap.ctxs[c2].token = r.heap.ctxs[c].token => c2 = c
          /\ isImmutable(r.heap, v)
          /\ \A w \in Values : r.heap.vals[w] = vals[w]
          /\ \A c2 \in DOMAIN ctxs : r.heap.ctxs[c2] = ctxs[c2]
          /\ \A t \in DOMAIN tokens : r.heap.tokens[t] = tokens[t]

\* asMutable(v) has just cloned a structure whose batch had been frozen.
C8_Witness ==
  /\ last.op = "asMutable"
  /\ ~isDefined(last.join)
  /\ last.err = NoError
  /\ last.ret # last.value
  /\ token(H, last.value) # 1
  /\ isImmutable(H, last.value)
  /\ isMutable(H, last.ret)

\* C9. isSameMutationContext(a, b) is true exactly when a and b are both
\* mutable and their contexts reference the same token cell.
C9_SameContextIff ==
  \A a \in Values : \A b \in Values :
    isSameMutationContext(H, a, b)
      <=> (isMutable(H, a) /\ isMutable(H, b) /\ token(H, a) = token(H, b))

\* The query has just answered false while two structures of one frozen
\* batch exist.
C9_Witness ==
  /\ last.op = "isSameMutationContext"
  /\ ~last.flag
  /\ \E a \in Values : \E b \in Values :
       /\ a # b
       /\ joined[b] = a
       /\ token(H, a) = token(H, b)
       /\ ~isMutable(H, a)

\* C10. doneMutating is idempotent on an owning structure: a second call
\* returns what the first returned and leaves the heap the first left; the
\* first call on a mutable owner freezes its token, and a call that follows
\* a call on the same structure writes nothing.
C10_DoneMutatingIdempotent ==
  /\ [](\A v \in Values :
          isOwner(H, mctx(H, v)) =>
            LET once == doneMutating(H, v)
            IN  /\ doneMutating(once.heap, v) = once
                /\ ~isMutable(once.heap, v)
                /\ once.heap = [H EXCEPT !.tokens[token(H, v)] = FALSE])
  /\ [][(/\ last.op = "doneMutating"
         /\ last'.op = "doneMutating"
         /\ last'.value = last.value
         /\ isOwner(H, mctx(H, last.value)))
          => (~last'.wrote /\ H' = H)]_vars

\* doneMutating has just been called on an owner that was already frozen.
C10_Witness ==
  /\ last.op = "doneMutating"
  /\ isOwner(H, mctx(H, last.value))
  /\ ~last.wrote
  /\ ~isMutable(H, last.value)

\* C11. A structure bound to frozenContext(), or reporting no context, is
\* immutable in every reachable state: isMutable is false, isImmutable is
\* true, doneMutating on it leaves the heap as it is, and the token cell of
\* FROZEN holds false.
C11_FrozenStaysImmutable ==
  /\ ~tokens[ctxs[FROZEN].token]
  /\ \A v \in Values :
       vals[v].mctx \in {FROZEN, Undefined}
         => /\ ~isMutable(H, v)
            /\ isImmutable(H, v)
            /\ doneMutating(H, v) = Ok(H, v)
  /\ last.op \in {"constructFrozen", "constructBare"} => isImmutable(H, last.ret)

\* doneMutating has just been called on a structure that reports no
\* context, while a clone made from an immutable structure is mutable.
C11_Witness ==
  /\ last.op = "doneMutating"
  /\ vals[last.value].mctx = Undefined
  /\ ~last.wrote
  /\ \E w \in Values : isMutable(H, w)
  /\ \E w \in Values : vals[w].mctx = FROZEN

\* The property reads of a call on v find an object: v's context is a
\* context of the heap and its token is a cell of the heap.
Dereferences(h, v) ==
  /\ mctx(h, v) \in DOMAIN h.ctxs
  /\ h.ctxs[mctx(h, v)].token \in DOMAIN h.tokens

\* C12. Joining a frozen context is the only failure path: on structures of
\* every kind the queries, doneMutating and asMutable without a join
\* argument complete without error, and a call that threw was an asMutable
\* call with a join argument.
C12_OnlyJoinFails ==
  /\ \A v \in Values :
       /\ Dereferences(H, v)
       /\ isMutable(H, v) \in BOOLEAN
       /\ isImmutable(H, v) \in BOOLEAN
       /\ \A w \in Values : isSameMutationContext(H, v, w) \in BOOLEAN
       /\ doneMutating(H, v).err = NoError
       /\ \A r \in {asMutable(H, v, Undefined)} :
            r.err = NoError /\ Dereferences(r.heap, r.ret)
  /\ last.err # NoError => (last.op = "asMutable" /\ isDefined(last.join))

\* asMutable with one argument has just cloned a structure that reports no
\* context.
C12_Witness ==
  /\ last.op = "asMutable"
  /\ ~isDefined(last.join)
  /\ vals[last.value].mctx = Undefined
  /\ last.err = NoError
  /\ last.ret # last.value

\* The contexts that reference token cell t.
ContextsOf(t) == {c \in DOMAIN ctxs : ctxs[c].token = t}

\* C13. Owner uniqueness: every token cell made by mutableContext() is
\* referenced by exactly one owning context, a context made by shadow is
\* non-owning, an owning context is the context of at most one structure,
\* and FROZEN is non-owning.
C13_OwnerUniqueness ==
  /\ ~ctxs[FROZEN].owner
  /\ \A c \in ContextsOf(ctxs[FROZEN].token) : ~ctxs[c].owner
  /\ \A t \in DOMAIN tokens \ {ctxs[FROZEN].token} :
       \E c \in DOMAIN ctxs :
         /\ ctxs[c] = MutationContext(t, TRUE)
         /\ \A d \in DOMAIN ctxs : ctxs[d] = ctxs[c] => d = c
  /\ \A v \in Values : \A w \in Values :
       (isOwner(H, mctx(H, v)) /\ vals[v].mctx = vals[w].mctx) => v = w
  /\ \A v \in Values :
       isMutable(H, v) =>
         \A s \in {shadow(H, v)} : s.err = NoError /\ ~s.heap.ctxs[s.ret].owner

\* A third structure has just joined a batch through its owner.
C13_Witness ==
  /\ last.op = "asMutable"
  /\ isDefined(last.join)
  /\ last.ret # last.value
  /\ last.err = NoError
  /\ isOwner(H, mctx(H, last.join))
  /\ Cardinality({v \in Values : token(H, v) = token(H, last.join)}) >= 3

\* C14. Shadowing rule: a clone made by asMutable(v, join) is bound to the
\* context of join itself, and no context is made, when that context is
\* active and non-owning; it is bound to a new non-owning context on the
\* token cell of join's context when that context is active and owning.
C14_ShadowingRule ==
  \A j \in Values :
    isMutable(H, j) =>
      \A v \in Values :
        ~isSameMutationContext(H, v, j) =>
          \A r \in {asMutable(H, v, j)} :
            /\ r.err = NoError
            /\ r.ret = Len(vals) + 1
            /\ r.heap.tokens = tokens
            /\ IF isOwner(H, mctx(H, j))
               THEN /\ r.heap.vals[r.ret].mctx = Len(ctxs) + 1
                    /\ r.heap.ctxs = Append(ctxs, MutationContext(token(H, j), FALSE))
               ELSE /\ r.heap.vals[r.ret].mctx = vals[j].mctx
                    /\ r.heap.ctxs = ctxs

\* A clone has just joined through a joiner and holds the joiner's context.
C14_Witness ==
  /\ last.op = "asMutable"
  /\ isDefined(last.join)
  /\ last.err = NoError
  /\ last.ret # last.value
  /\ ~isOwner(H, mctx(H, last.join))
  /\ vals[last.ret].mctx = vals[last.join].mctx

\* The clones that joined the batch of token cell t through the structure
\* that holds its owning context.
JoinedOwner(t) ==
  {v \in Values : /\ isDefined(joined[v])
                  /\ token(H, v) = t
                  /\ isOwner(H, mctx(H, joined[v]))}

\* C15 as stated. Two contexts per batch: the contexts that reference the
\* token cell of a batch are the owning context and at most one non-owning
\* context, which all the joiners hold.
C15_TwoContextsPerBatch ==
  \A t \in DOMAIN tokens \ {ctxs[FROZEN].token} :
    /\ Cardinality(ContextsOf(t)) <= 2
    /\ \A v \in Values : \A w \in Values :
         (token(H, v) = t /\ token(H, w) = t
            /\ ~isOwner(H, mctx(H, v)) /\ ~isOwner(H, mctx(H, w)))
           => vals[v].mctx = vals[w].mctx

\* C15 as amended. The contexts that reference the token cell of a batch
\* are the owning context and one non-owning context for each clone that
\* joined through the owner; a clone that joined through a joiner holds the
\* joiner's context.
C15_ContextPerOwnerJoin ==
  /\ \A t \in DOMAIN tokens \ {ctxs[FROZEN].token} :
       \A J \in {JoinedOwner(t)} :
         /\ Cardinality(ContextsOf(t)) = 1 + Cardinality(J)
         /\ \A v \in J : \A w \in J : v # w => vals[v].mctx # vals[w].mctx
  /\ \A v \in Values :
       (isDefined(joined[v]) /\ ~isOwner(H, mctx(H, joined[v])))
         => vals[v].mctx = vals[joined[v]].mctx

\* A batch of an owner, two clones that joined through the owner and
\* therefore three contexts on one token cell.
C15_Witness ==
  /\ last.op = "asMutable"
  /\ isDefined(last.join)
  /\ last.ret # last.value
  /\ last.err = NoError
  /\ Cardinality(JoinedOwner(token(H, last.ret))) = 2
  /\ Cardinality(ContextsOf(token(H, last.ret))) = 3

\* The structure a batch started with: v itself when v was constructed or
\* cloned without a join argument, else the origin of the structure v was
\* cloned to join.
RECURSIVE BatchOrigin(_)
BatchOrigin(v) == IF isDefined(joined[v]) THEN BatchOrigin(joined[v]) ELSE v

\* C16. Batch isolation: doneMutating(v) writes no token cell but the one
\* of v's context and leaves the mutability of every structure on another
\* token cell as it was; structures of batches with different origins are
\* never in the same mutation context.
C16_BatchIsolation ==
  /\ \A v \in Values :
       \A r \in {doneMutating(H, v)} :
         /\ DOMAIN r.heap.tokens = DOMAIN tokens
         /\ \A t \in DOMAIN tokens :
              r.heap.tokens[t] # tokens[t] => t = token(H, v)
         /\ \A w \in Values :
              token(H, w) # token(H, v) => isMutable(r.heap, w) = isMutable(H, w)
  /\ \A org \in {[v \in Values |-> BatchOrigin(v)]} :
       \A a \in Values : \A b \in Values :
         org[a] # org[b]
           => (token(H, a) # token(H, b) \/ token(H, a) = ctxs[FROZEN].token)
              /\ ~isSameMutationContext(H, a, b)

\* An owner has just frozen its batch while a structure of another batch,
\* begun by another mutableContext() call, is still mutable.
C16_Witness ==
  /\ last.op = "doneMutating"
  /\ last.wrote
  /\ \E w \in Values :
       /\ isMutable(H, w)
       /\ isDefined(joined[w])
       /\ BatchOrigin(w) # BatchOrigin(last.value)

\* C17. asMutable(v, join) returns v itself, and leaves the heap as it is,
\* exactly when v and join are mutable on the same token cell; when both
\* are mutable on different token cells it returns a new clone on join's
\* token cell and v is as mutable as before, its token cell unwritten.
C17_JoinReturnsSelfIffSameBatch ==
  \A v \in Values : \A j \in Values :
    \A r \in {asMutable(H, v, j)} :
      \A same \in {isMutable(H, v) /\ isMutable(H, j) /\ token(H, v) = token(H, j)} :
        /\ (r.err = NoError /\ r.ret = v) <=> same
        /\ same => r.heap = H
        /\ (isMutable(H, v) /\ isMutable(H, j) /\ ~same)
             => /\ r.err = NoError
                /\ r.ret \notin Values
                /\ token(r.heap, r.ret) = token(H, j)
                /\ isMutable(r.heap, r.ret)
                /\ r.heap.vals[v] = vals[v]
                /\ isMutable(r.heap, v)
                /\ r.heap.tokens = tokens
                /\ ~isSameMutationContext(r.heap, v, r.ret)

\* A mutable structure has just been cloned into another batch and is
\* still mutable in its own.
C17_Witness ==
  /\ last.op = "asMutable"
  /\ isDefined(last.join)
  /\ last.err = NoError
  /\ last.ret # last.value
  /\ isMutable(H, last.value)
  /\ isMutable(H, last.ret)
  /\ token(H, last.value) # token(H, last.ret)

\* C18. Contexts are immutable objects: in every step each context keeps
\* its token reference and its owner value, each structure keeps its
\* context, no token cell disappears, and a token cell whose content
\* changes holds false afterwards.
C18_ContextsNeverMutated ==
  [][/\ \A c \in DOMAIN ctxs : c \in DOMAIN ctxs' /\ ctxs'[c] = ctxs[c]
     /\ \A v \in Values : v \in DOMAIN vals' /\ vals'[v] = vals[v]
     /\ \A t \in DOMAIN tokens :
          /\ t \in DOMAIN tokens'
          /\ tokens'[t] # tokens[t] => ~tokens'[t]
     /\ (Len(vals') > Len(vals)) => Len(vals') = Len(vals) + 1]_vars

\* An owner has just frozen a batch whose joiners hold two shadow contexts.
C18_Witness ==
  /\ last.op = "doneMutating"
  /\ last.wrote
  /\ Cardinality(ContextsOf(token(H, last.value))) >= 3

\* C19. doneMutating(asMutable(v)) returns an immutable structure when v
\* is immutable or holds the owning context of its batch; on a mutable
\* non-owning v, asMutable returns v, doneMutating leaves the heap as it is
\* and the structure returned is still mutable.
C19_EditThenDone ==
  \A v \in Values :
    \A r1 \in {asMutable(H, v, Undefined)} :
      \A r2 \in {doneMutating(r1.heap, r1.ret)} :
        /\ r1.err = NoError
        /\ r2.err = NoError
        /\ r2.ret = r1.ret
        /\ (isImmutable(H, v) \/ isOwner(H, mctx(H, v)))
             => ~isMutable(r2.heap, r2.ret)
        /\ (isMutable(H, v) /\ ~isOwner(H, mctx(H, v)))
             => /\ r1.ret = v
                /\ r2.heap = H
                /\ isMutable(r2.heap, r2.ret)

\* doneMutating has just been called on a mutable joiner that had joined
\* through another joiner, and the joiner is still mutable.
C19_Witness ==
  /\ last.op = "doneMutating"
  /\ ~last.wrote
  /\ isMutable(H, last.value)
  /\ ~isOwner(H, mctx(H, last.value))
  /\ isDefined(joined[last.value])
  /\ ~isOwner(H, mctx(H, joined[last.value]))

\* Largest number of structures in the specification with fairness.
MaxLive == 3

\* The calls that allocate or write: the queries leave the heap as it is.
FairNext ==
  \/ ConstructMutable /\ Len(vals') <= MaxLive
  \/ ConstructFrozen /\ Len(vals') <= MaxLive
  \/ ConstructBare /\ Len(vals') <= MaxLive
  \/ \E v \in Values : \E j \in Values \cup {Undefined} :
       AsMutable(v, j) /\ Len(vals') <= MaxLive
  \/ \E v \in Values : DoneMutating(v)

\* The specification in which doneMutating is eventually called on every
\* structure on which the call freezes a token cell.
FairSpec ==
  /\ Init
  /\ [][FairNext]_vars
  /\ \A v \in 1..MaxLive : WF_vars(v \in Values /\ DoneMutating(v) /\ tokens' # tokens)

\* The structure that holds the owning context of token cell t.
OwnersOf(t) ==
  {v \in Values : isDefined(vals[v].mctx) /\ isOwner(H, vals[v].mctx) /\ token(H, v) = t}

\* C20. Every batch can be finalized: each token cell that holds true has
\* a structure bound to its owning context, and doneMutating on that
\* structure freezes the cell; when doneMutating is eventually called on
\* the owners, every structure that is mutable is eventually immutable.
C20_EveryBatchFinalizable ==
  /\ [](\A t \in DOMAIN tokens :
          tokens[t] => /\ OwnersOf(t) # {}
                       /\ \A v \in OwnersOf(t) : ~doneMutating(H, v).heap.tokens[t])
  /\ \A v \in 1..MaxLive :
       (v \in Values /\ isMutable(H, v)) ~> (v \in Values /\ ~isMutable(H, v))

\* Every structure is immutable after a batch with a joiner was frozen.
C20_Witness ==
  /\ last.op = "doneMutating"
  /\ last.wrote
  /\ \A v \in Values : ~isMutable(H, v)
  /\ \E v \in Values : joined[v] = last.value

====
